---- MODULE Spec2Model ----
(***************************************************************************)
(* Model of neurodynex/tools/plot_tools.py: the three plotting helpers     *)
(* plot_voltage_and_current_traces, plot_network_activity and               *)
(* plot_ISI_distribution.  A call is a run of the state machine: pc is the  *)
(* position in the called function, args its (immutable) arguments, and     *)
(* surface the sequence of calls made so far on the plotting library.       *)
(*                                                                         *)
(* Units.  Times are whole milliseconds: a Quantity of time and the float   *)
(* obtained from it by "/ b2.ms" are the same integer.  Voltages and        *)
(* currents are integers (mV, and an arbitrary current unit); the y-limits  *)
(* involve the factors 0.05 and 1.05 and are kept multiplied by Scale = 20, *)
(* which makes them integers.  The only place where binary floating point   *)
(* decides an integer result, int(nr_neurons * v) on line 220, is computed  *)
(* in IEEE double precision (the Float operators below).                    *)
(***************************************************************************)
EXTENDS Integers, Sequences, FiniteSets, TLC

VARIABLES fn, args, pc, err, loc, surface

vars == <<fn, args, pc, err, loc, surface>>

-----------------------------------------------------------------------------
(* Generic helpers: Python built-ins and numpy primitives used by the code. *)

\* Python's None for an optional argument: the empty sequence; a value x is <<x>>.
None == <<>>

Some(x) == <<x>>

IsNone(o) == o = <<>>

Val(o) == o[1]

Range(s) == {s[i] : i \in 1..Len(s)}

\* Python's max(a, b) on numbers.
max2(a, b) == IF a >= b THEN a ELSE b

\* Python's / numpy's max(seq), min(seq) of a non-empty sequence.
max(s) == CHOOSE x \in Range(s) : \A y \in Range(s) : y <= x

min(s) == CHOOSE x \in Range(s) : \A y \in Range(s) : x <= y

\* Python's slice s[:n].
Take(s, n) == IF Len(s) <= n THEN s ELSE SubSeq(s, 1, n)

\* numpy.sort of a one-dimensional integer array: ascending.
numpy_sort(s) == SortSeq(s, LAMBDA a, b : a < b)

\* Python's range(n) as a sequence 0, 1, ..., n-1.
range(n) == [i \in 1..n |-> i - 1]

\* Mutant of within_time_window: the lower end of the window is excluded.
within_time_window_open(ts, lo, hi) == SelectSeq(ts, LAMBDA t : t > lo /\ t <= hi)

\* Boolean-mask selection ts[(ts >= lo) & (ts <= hi)] (numpy.where + indexing).
within_time_window(ts, lo, hi) == SelectSeq(ts, LAMBDA t : t >= lo /\ t <= hi)

\* A loop that makes m calls per iteration: the iteration (from 1) and the
\* position within it (from 1) of the p-th call.
Iteration(p, m) == (p - 1) \div m + 1

Position(p, m) == ((p - 1) % m) + 1

\* Concatenation of a sequence of sequences.
RECURSIVE Flatten(_)
Flatten(ss) == IF ss = <<>> THEN <<>> ELSE Head(ss) \o Flatten(Tail(ss))

\* Sum of a sequence of integers.
RECURSIVE Sum(_)
Sum(s) == IF s = <<>> THEN 0 ELSE Head(s) + Sum(Tail(s))

-----------------------------------------------------------------------------
(* IEEE-754 double precision, for values >= 0.  A float is a record [m, e]: *)
(* m is the 53-bit significand, held as four limbs of LimbBits bits, least  *)
(* significant limb first (2^52 <= m < 2^53 unless the value is zero), and  *)
(* the value is m * 2^e.  Every operation computes the exact result and     *)
(* rounds it once, to nearest, ties to even, as the hardware does.          *)

\* Bits of a double's significand.
Prec == 53

\* Bits per limb of the multi-precision integers the significands are kept in.
LimbBits == 15

RECURSIVE PowerOfTwo(_)
PowerOfTwo(n) == IF n = 0 THEN 1 ELSE 2 * PowerOfTwo(n - 1)

Pow2Table == [n \in 0..LimbBits |-> PowerOfTwo(n)]

Pow2(n) == Pow2Table[n]

Base == Pow2(LimbBits)

\* Limbs of a significand.
MantLimbs == (Prec + LimbBits - 1) \div LimbBits

FloatZero == [m |-> [i \in 1..MantLimbs |-> 0], e |-> 0]

IsFloatZero(x) == \A i \in 1..MantLimbs : x.m[i] = 0

Limb(X, i) == IF i >= 1 /\ i <= Len(X) THEN X[i] ELSE 0

\* Bit n (bit 0 is the least significant) of the multi-precision integer X.
Bit(X, n) == (Limb(X, n \div LimbBits + 1) \div Pow2(n % LimbBits)) % 2

\* Number of significant bits of X (0 for X = 0).
BitLen(X) ==
    IF \A i \in 1..Len(X) : X[i] = 0 THEN 0
    ELSE LET top == CHOOSE i \in 1..Len(X) :
                       X[i] # 0 /\ \A j \in (i + 1)..Len(X) : X[j] = 0
             b   == CHOOSE n \in 1..LimbBits :
                       Pow2(n - 1) <= X[top] /\ X[top] < Pow2(n)
         IN  LimbBits * (top - 1) + b

\* X \div 2^n, as `len` limbs.
ShiftRight(X, n, len) ==
    LET q == n \div LimbBits
        r == n % LimbBits
    IN  [i \in 1..len |->
            (Limb(X, i + q) \div Pow2(r))
            + (Limb(X, i + q + 1) % Pow2(r)) * Pow2(LimbBits - r)]

\* X + 1 with the carry rippling through the limbs below the top one.
RECURSIVE IncLimbs(_, _)
IncLimbs(X, i) ==
    IF i = Len(X) \/ X[i] + 1 < Base THEN [X EXCEPT ![i] = X[i] + 1]
    ELSE IncLimbs([X EXCEPT ![i] = 0], i + 1)

\* Round the exact value (X + f) * 2^e to a double, where X has at least Prec
\* bits and f is a fraction in [0, 1) that is non-zero exactly when sticky.
FloatRound(X, e, sticky) ==
    LET sh    == BitLen(X) - Prec
        keep  == ShiftRight(X, sh, MantLimbs)
        guard == sh > 0 /\ Bit(X, sh - 1) = 1
        rest  == sticky \/ (\E n \in 0..(sh - 2) : Bit(X, n) = 1)
        up    == guard /\ (rest \/ keep[1] % 2 = 1)
        inc   == IncLimbs(keep, 1)
    IN  IF ~up THEN [m |-> keep, e |-> e + sh]
        ELSE IF BitLen(inc) = Prec THEN [m |-> inc, e |-> e + sh]
        ELSE [m |-> ShiftRight(inc, 1, MantLimbs), e |-> e + sh + 1]

\* Short division of the multi-precision integer X by d < Base, from the top
\* limb down: the quotient's limbs and the remainder.
RECURSIVE DivLimbs(_, _, _, _, _)
DivLimbs(X, d, i, r, acc) ==
    IF i = 0 THEN [q |-> acc, rem |-> r]
    ELSE LET cur == r * Base + X[i]
         IN  DivLimbs(X, d, i - 1, cur % d, <<cur \div d>> \o acc)

\* The double 1.0 / d for an integer d with 1 <= d < Base.
FloatRecip(d) ==
    LET one == [i \in 1..(MantLimbs + 2) |-> IF i = MantLimbs + 2 THEN 1 ELSE 0]
        qr  == DivLimbs(one, d, MantLimbs + 2, 0, <<>>)
    IN  FloatRound(qr.q, -(LimbBits * (MantLimbs + 1)), qr.rem # 0)

\* The exact product X * k, for an integer k with 1 <= k < Base.
RECURSIVE MulLimbs(_, _, _, _, _)
MulLimbs(X, k, i, carry, acc) ==
    IF i > Len(X) THEN Append(acc, carry)
    ELSE LET t == X[i] * k + carry
         IN  MulLimbs(X, k, i + 1, t \div Base, Append(acc, t % Base))

\* The double k * x for an integer k with 0 <= k < Base (exactly representable)
\* and a float x: the exact product, rounded once.
FloatMulInt(k, x) ==
    IF k = 0 \/ IsFloatZero(x) THEN FloatZero
    ELSE FloatRound(MulLimbs(x.m, k, 1, 0, <<>>), x.e, FALSE)

\* Python's int(x) for a float 0 <= x < 2^30: truncation toward zero.
FloatToInt(x) ==
    IF IsFloatZero(x) \/ Prec + x.e <= 0 THEN 0
    ELSE LET t == ShiftRight(x.m, -x.e, 2) IN t[1] + Base * t[2]

-----------------------------------------------------------------------------
(* Bounds of the model and constants of the program.                        *)

\* Neurons of a small network (the spike monitor's keys are 0..n-1).
MaxNeurons == 3

\* Largest N_highlighted_spiketrains tried (the smallest is -1).
MaxHighlighted == 5

\* "if len(spike_train_idx_list) > 500", "spike_train_idx_list[:500]".
MaxSpikeTrains == 500

\* "t_min = max(0., t_max-100.)": the default window, in ms.
DefaultWindow == 100

\* Default of N_highlighted_spiketrains.
DefaultHighlighted == 3

\* Multiplier that makes the y-limits integers: 0.05 = 1/Scale.
Scale == 20

\* "margin = 1.05 * (max_current - min_current)", times Scale.
CurrentMargin == 21

\* "margin = 0.05 * (max_val - min_val)", times Scale.
VoltageMargin == 1

\* Defaults of hist_nr_bins and hist_max_ISI (ms).
DefaultBins == 50

DefaultMaxISI == 100

-----------------------------------------------------------------------------
(* The plotting surface: one record per call on matplotlib, in call order.  *)
(* panel names the axes, y a row / neuron / panel count, c the colour and   *)
(* x the plotted abscissae (or the two limits of a set_ylim / ylim call).   *)

Draw(op, panel, y, c, x) == [op |-> op, panel |-> panel, y |-> y, c |-> c, x |-> x]

-----------------------------------------------------------------------------
(* plot_network_activity (lines 81-231).                                    *)

\* Sample times of the simulation clock (ms): rate_monitor.t, voltage_monitor.t.
\* The simulation has run: the series are not empty, and they ascend.
RateSeries == {<<0, 50, 100, 150, 200, 250>>, <<0, 30, 60>>}

\* The spike train of neuron k (ms).
SpikeTrainOf(k) ==
    CASE k % 3 = 0 -> <<100, 150, 250>>
      [] k % 3 = 1 -> <<60, 149, 200, 251>>
      [] OTHER     -> <<0, 150, 151, 250, 300>>

\* spike_monitor.spike_trains(): a dict with one key per neuron of the group.
spike_trains(spike_monitor) == [k \in 0..(spike_monitor.n - 1) |-> SpikeTrainOf(k)]

\* dict.keys(): the keys as a list (Python 2, which the module was written
\* for), in an order the dict chooses (here the descending one, so that the
\* sort that follows is not the identity).
dict_keys(d) == [i \in 1..Cardinality(DOMAIN d) |-> Cardinality(DOMAIN d) - i]

\* Mutant of net_types_ok: the check of spike_train_idx_list is missing.
net_types_ok_no_list_check(a) ==
    /\ a.rate_monitor.kind = "PopulationRateMonitor"
    /\ a.spike_monitor.kind = "SpikeMonitor"
    /\ (IsNone(a.voltage_monitor) \/ Val(a.voltage_monitor).kind = "StateMonitor")

\* The four isinstance assertions, lines 107-114.
net_types_ok(a) ==
    /\ a.rate_monitor.kind = "PopulationRateMonitor"
    /\ a.spike_monitor.kind = "SpikeMonitor"
    /\ (IsNone(a.voltage_monitor) \/ Val(a.voltage_monitor).kind = "StateMonitor")
    /\ (IsNone(a.spike_train_idx_list) \/ Val(a.spike_train_idx_list).kind = "list")

\* Mutant of default_selection: the cut to MaxSpikeTrains entries is missing.
default_selection_uncut(a) ==
    IF ~IsNone(a.voltage_monitor)
    THEN numpy_sort(Val(a.voltage_monitor).record)
    ELSE numpy_sort(dict_keys(spike_trains(a.spike_monitor)))

\* Lines 117-126: the selection when no index list is given.
default_selection(a) ==
    LET all_spike_trains == spike_trains(a.spike_monitor)
        sorted == IF ~IsNone(a.voltage_monitor)
                  THEN numpy_sort(Val(a.voltage_monitor).record)
                  ELSE numpy_sort(dict_keys(all_spike_trains))
    IN  IF Len(sorted) > MaxSpikeTrains THEN Take(sorted, MaxSpikeTrains) ELSE sorted

\* Lines 129-132.
effective_t_max(a) ==
    IF IsNone(a.t_max) THEN max(a.rate_monitor.t) ELSE Val(a.t_max)

\* Lines 133-136.
effective_t_min(a, t_max) ==
    IF IsNone(a.t_min) THEN max2(0, t_max - DefaultWindow) ELSE Val(a.t_min)

\* get_spike_train_ts_indices (lines 148-156): the spikes within the window.
get_spike_train_ts_indices(spike_train, t_min, t_max) ==
    within_time_window(spike_train, t_min, t_max)

\* Lines 219-220: fract = numpy.linspace(0, 1, N+2)[1:-1], the k-th entry being
\* the double k * step with step = 1.0 / (N+1), and int(nr_neurons * v).
highlighted_rows(nr_neurons, N) ==
    LET step == FloatRecip(N + 1)
    IN  [k \in 1..N |-> FloatToInt(FloatMulInt(nr_neurons, FloatMulInt(k, step)))]

\* Lines 224-227: the raster rows whose voltage traces are plotted.
voltage_trace_rows(N, nr_neurons, highlighted_neurons_i) ==
    IF N = 0 THEN range(nr_neurons) ELSE highlighted_neurons_i

\* Colours of the i-th (1-based here) highlighted spike train / voltage trace.
highlight_color(i) == IF i = 1 THEN "r" ELSE "k"

trace_color(i) == IF i = 1 THEN "r" ELSE ".7"

NetLocals(a) ==
    [spike_train_idx_list  |-> IF IsNone(a.spike_train_idx_list) THEN <<>>
                               ELSE Val(a.spike_train_idx_list).items,
     t_min                 |-> None,
     t_max                 |-> None,
     highlighted_neurons_i |-> <<>>,
     returned              |-> FALSE]

\* A voltage monitor of the given network: record=True (all neurons), or an
\* explicit record list, which may be unsorted and may name other neurons.
VoltageRecords(n) == {range(n), <<1, 0>>, <<0, 7>>}

\* Explicit index lists a caller may pass.
IndexLists == {<<>>, <<0>>, <<1, 0>>, <<0, 7>>}

\* The voltage_monitor arguments for a network of n neurons sampled at ts.
VoltageMonitors(n, ts) ==
    {None} \cup {Some([kind |-> "other", record |-> <<>>, t |-> ts])}
           \cup {Some([kind |-> "StateMonitor", record |-> r, t |-> ts]) :
                    r \in VoltageRecords(n)}

\* The spike_train_idx_list arguments.
IndexListArgs ==
    {None} \cup {Some([kind |-> "other", items |-> <<>>])}
           \cup {Some([kind |-> "list", items |-> l]) : l \in IndexLists}

\* Calls whose monitors are of the right kinds.
NetArgs(sizes, highlights) ==
    UNION {
      {[rate_monitor  |-> [kind |-> "PopulationRateMonitor", t |-> ts],
        spike_monitor |-> [kind |-> "SpikeMonitor", n |-> n],
        voltage_monitor |-> vm,
        spike_train_idx_list |-> il,
        t_min |-> t0,
        t_max |-> t1,
        N_highlighted_spiketrains |-> N] :
          vm \in VoltageMonitors(n, ts),
          il \in IndexListArgs,
          t0 \in {None, Some(150)},
          t1 \in {None, Some(200)},
          N \in highlights} :
      ts \in RateSeries, n \in sizes}

\* The same calls with a rate or spike monitor of another kind (with the
\* default window and highlight count).
NetArgsWrongKind(sizes) ==
    {[a EXCEPT !.rate_monitor.kind = rk, !.spike_monitor.kind = sk] :
        a \in {b \in NetArgs(sizes, {DefaultHighlighted}) :
                  IsNone(b.t_min) /\ IsNone(b.t_max)},
        rk \in {"PopulationRateMonitor", "other"},
        sk \in {"SpikeMonitor", "other"}}

InitNet ==
    /\ fn = "plot_network_activity"
    /\ args \in NetArgs((0..MaxNeurons) \cup {18}, (-1)..MaxHighlighted)
                \cup NetArgsWrongKind(0..MaxNeurons)
    /\ pc = "validate"
    /\ err = "none"
    /\ loc = NetLocals(args)
    /\ surface = <<>>

\* Lines 107-114.
NetValidate ==
    /\ fn = "plot_network_activity" /\ pc = "validate"
    /\ IF net_types_ok(args)
       THEN pc' = "select" /\ err' = err
       ELSE pc' = "error" /\ err' = "AssertionError"
    /\ UNCHANGED <<fn, args, loc, surface>>

\* Lines 116-126.
NetSelect ==
    /\ fn = "plot_network_activity" /\ pc = "select"
    /\ loc' = IF IsNone(args.spike_train_idx_list)
              THEN [loc EXCEPT !.spike_train_idx_list = default_selection(args)]
              ELSE loc
    /\ pc' = "window"
    /\ UNCHANGED <<fn, args, err, surface>>

\* Lines 128-136.
NetWindow ==
    /\ fn = "plot_network_activity" /\ pc = "window"
    /\ LET t_max == effective_t_max(args)
       IN  loc' = [loc EXCEPT !.t_max = Some(t_max),
                              !.t_min = Some(effective_t_min(args, t_max))]
    /\ pc' = "subplots"
    /\ UNCHANGED <<fn, args, err, surface>>

\* Lines 138-145.
NetSubplots ==
    /\ fn = "plot_network_activity" /\ pc = "subplots"
    /\ surface' = Append(surface,
           Draw("subplots", "figure", IF IsNone(args.voltage_monitor) THEN 2 ELSE 3,
                "", <<>>))
    /\ pc' = "plot_raster"
    /\ UNCHANGED <<fn, args, err, loc>>

\* plot_raster (lines 158-168), called on line 214.  all_spike_trains[neuron_index]
\* raises KeyError at the first selected index that is no key; the rows before
\* it have been scattered by then.
NetPlotRaster ==
    /\ fn = "plot_network_activity" /\ pc = "plot_raster"
    /\ LET sel  == loc.spike_train_idx_list
           all_spike_trains == spike_trains(args.spike_monitor)
           bad  == {i \in 1..Len(sel) : sel[i] \notin DOMAIN all_spike_trains}
           stop == IF bad = {} THEN Len(sel) + 1
                   ELSE CHOOSE i \in bad : \A j \in bad : i <= j
           rows == [i \in 1..(stop - 1) |->
                      Draw("scatter", "raster", i - 1, "k",
                           get_spike_train_ts_indices(all_spike_trains[sel[i]],
                                                      Val(loc.t_min), Val(loc.t_max)))]
       IN  IF bad = {}
           THEN /\ surface' = surface \o rows
                               \o <<Draw("set_ylim", "raster", 0, "", <<0, Len(sel)>>)>>
                /\ pc' = "plot_population_activity"
                /\ err' = err
           ELSE /\ surface' = surface \o rows
                /\ pc' = "error"
                /\ err' = "KeyError"
    /\ UNCHANGED <<fn, args, loc>>

\* plot_population_activity (lines 186-196), called on line 215.  The smoothed
\* rates are the simulator's; the model keeps the abscissae that are plotted.
NetPlotPopulationActivity ==
    /\ fn = "plot_network_activity" /\ pc = "plot_population_activity"
    /\ surface' = surface
          \o <<Draw("plot", "rate", 0, "",
                    within_time_window(args.rate_monitor.t, Val(loc.t_min), Val(loc.t_max))),
               Draw("set_ylabel", "rate", 0, "", <<>>),
               Draw("set_title", "rate", 0, "", <<>>)>>
    /\ pc' = "highlight"
    /\ UNCHANGED <<fn, args, err, loc>>

\* Lines 216-221 and highlight_raster (lines 170-184).
\* spike_train_idx_list[raster_plot_index] raises IndexError at the first row
\* that is not a position of the selection.
NetHighlight ==
    /\ fn = "plot_network_activity" /\ pc = "highlight"
    /\ LET sel == loc.spike_train_idx_list
           N   == args.N_highlighted_spiketrains
           all_spike_trains == spike_trains(args.spike_monitor)
           hl  == IF N > 0 THEN highlighted_rows(Len(sel), N) ELSE <<>>
           bad == {i \in 1..Len(hl) : hl[i] >= Len(sel)}
           stop == IF bad = {} THEN Len(hl) + 1
                   ELSE CHOOSE i \in bad : \A j \in bad : i <= j
           marks == [p \in 1..(2 * (stop - 1)) |->
                      LET i == Iteration(p, 2) IN
                      IF Position(p, 2) = 1
                      THEN Draw("axhline", "raster", hl[i], "grey", <<>>)
                      ELSE Draw("scatter", "raster", hl[i], highlight_color(i),
                             get_spike_train_ts_indices(all_spike_trains[sel[hl[i] + 1]],
                                                        Val(loc.t_min), Val(loc.t_max)))]
       IN  /\ loc' = [loc EXCEPT !.highlighted_neurons_i = hl]
           /\ IF bad = {}
              THEN /\ surface' = surface \o marks
                                  \o (IF N > 0
                                      THEN <<Draw("set_ylabel", "raster", 0, "", <<>>),
                                             Draw("set_title", "raster", 0, "", <<>>)>>
                                      ELSE <<>>)
                   /\ pc' = "voltage" /\ err' = err
              ELSE /\ surface' = surface \o marks
                   /\ pc' = "error" /\ err' = "IndexError"
    /\ UNCHANGED <<fn, args>>

\* Lines 223-228 and plot_voltage_traces (lines 198-212).
\* voltage_monitor[population_index] raises IndexError for an index the monitor
\* has not recorded; the traces before it have been plotted by then.
NetPlotVoltage ==
    /\ fn = "plot_network_activity" /\ pc = "voltage"
    /\ IF IsNone(args.voltage_monitor)
       THEN pc' = "return" /\ UNCHANGED <<err, surface>>
       ELSE LET sel == loc.spike_train_idx_list
                vm  == Val(args.voltage_monitor)
                traces_i == voltage_trace_rows(args.N_highlighted_spiketrains,
                                               Len(sel), loc.highlighted_neurons_i)
                bad == {i \in 1..Len(traces_i) :
                            sel[traces_i[i] + 1] \notin Range(vm.record)}
                stop == IF bad = {} THEN Len(traces_i) + 1
                        ELSE CHOOSE i \in bad : \A j \in bad : i <= j
                lines == [p \in 1..(3 * (stop - 1)) |->
                            LET i == Iteration(p, 3) IN
                            CASE Position(p, 3) = 1 ->
                                   Draw("plot", "voltage", sel[traces_i[i] + 1], trace_color(i),
                                        within_time_window(vm.t, Val(loc.t_min), Val(loc.t_max)))
                              [] Position(p, 3) = 2 ->
                                   Draw("set_ylabel", "voltage", 0, "", <<>>)
                              [] OTHER -> Draw("set_title", "voltage", 0, "", <<>>)]
            IN  /\ surface' = surface \o lines
                /\ IF bad = {}
                   THEN pc' = "return" /\ err' = err
                   ELSE pc' = "error" /\ err' = "IndexError"
    /\ UNCHANGED <<fn, args, loc>>

\* Lines 230-231.
NetReturn ==
    /\ fn = "plot_network_activity" /\ pc = "return"
    /\ surface' = Append(surface, Draw("xlabel", "figure", 0, "", <<>>))
    /\ loc' = [loc EXCEPT !.returned = TRUE]
    /\ pc' = "done"
    /\ UNCHANGED <<fn, args, err>>

NextNet ==
    \/ NetValidate
    \/ NetSelect
    \/ NetWindow
    \/ NetSubplots
    \/ NetPlotRaster
    \/ NetPlotPopulationActivity
    \/ NetHighlight
    \/ NetPlotVoltage
    \/ NetReturn

-----------------------------------------------------------------------------
(* plot_voltage_and_current_traces (lines 24-78).                           *)

\* The two isinstance assertions, lines 36-37.
vc_types_ok(a) ==
    /\ a.voltage_monitor.kind = "StateMonitor"
    /\ a.current.kind = "TimedArray"

\* current(t, 0): a TimedArray holds its last value beyond its end.
timed_array(current, t) ==
    LET i == t \div current.dt
    IN  current.values[IF i >= Len(current.values) THEN Len(current.values) ELSE i + 1]

\* Line 43: the current at the voltage monitor's sample times.
sampled_current(a) ==
    [i \in 1..Len(a.voltage_monitor.t) |-> timed_array(a.current, a.voltage_monitor.t[i])]

\* Mutant of current_ylim: plt.ylim is called for a flat current too.
current_ylim_always(c) ==
    LET margin == CurrentMargin * (max(c) - min(c))
    IN  Some(<<Scale * min(c) - margin, Scale * max(c) + margin>>)

\* Lines 44-50: the y-limits of the current panel (times Scale), None when
\* plt.ylim is not called.
current_ylim(c) ==
    LET max_current == max(c)
        min_current == min(c)
        margin == CurrentMargin * (max_current - min_current)
    IN  IF margin > 0
        THEN Some(<<Scale * min_current - margin, Scale * max_current + margin>>)
        ELSE None

\* Lines 62-67: the y-limits of the voltage panel (times Scale).
voltage_ylim(v, firing_threshold) ==
    LET max_v   == max(v)
        max_val == IF ~IsNone(firing_threshold)
                   THEN max2(max_v, Val(firing_threshold)) ELSE max_v
        min_val == min(v)
        margin  == VoltageMargin * (max_val - min_val)
    IN  <<Scale * min_val - margin, Scale * max_val + margin>>

\* Recorded membrane voltages of neuron 0 (mV), one per sample time.
VoltageTraces == {<<-70, -70, -70>>, <<-70, -60, -50>>, <<-65, -50, -70>>}

\* Injected currents: the TimedArray's values, one per dt = 1 ms.
CurrentArrays == {<<0, 0, 0>>, <<0, 5, 5>>, <<-2, 3, 1>>, <<4>>, <<1, 1, 2>>}

FiringThresholds == {None, Some(-80), Some(-71), Some(-60), Some(-50), Some(-40)}

VCArgs ==
    {[voltage_monitor |-> [kind |-> vk, t |-> <<0, 1, 2>>, v |-> v],
      current |-> [kind |-> ck, values |-> cv, dt |-> 1],
      title |-> ti,
      firing_threshold |-> th,
      do_show_plot |-> sh] :
        vk \in {"StateMonitor", "other"},
        ck \in {"TimedArray", "other"},
        v \in VoltageTraces,
        cv \in CurrentArrays,
        ti \in {None, Some("title")},
        th \in FiringThresholds,
        sh \in BOOLEAN}

InitVC ==
    /\ fn = "plot_voltage_and_current_traces"
    /\ args \in VCArgs
    /\ pc = "validate"
    /\ err = "none"
    /\ loc = [shown |-> FALSE]
    /\ surface = <<>>

\* Lines 36-37.
VCValidate ==
    /\ fn = "plot_voltage_and_current_traces" /\ pc = "validate"
    /\ IF vc_types_ok(args)
       THEN pc' = "current" /\ err' = err
       ELSE pc' = "error" /\ err' = "AssertionError"
    /\ UNCHANGED <<fn, args, loc, surface>>

\* Lines 39-53: the current panel.
VCCurrent ==
    /\ fn = "plot_voltage_and_current_traces" /\ pc = "current"
    /\ LET c   == sampled_current(args)
           lim == current_ylim(c)
       IN  surface' = surface
              \o <<Draw("subplot", "current", 211, "", <<>>),
                   Draw("plot", "current", 0, "r", c)>>
              \o (IF IsNone(lim) THEN <<>>
                  ELSE <<Draw("ylim", "current", 0, "", Val(lim))>>)
              \o <<Draw("ylabel", "current", 0, "", <<min(c), max(c)>>),
                   Draw("grid", "current", 0, "", <<>>)>>
    /\ pc' = "voltage"
    /\ UNCHANGED <<fn, args, err, loc>>

\* Lines 54-70: the voltage panel.
VCVoltage ==
    /\ fn = "plot_voltage_and_current_traces" /\ pc = "voltage"
    /\ LET v  == args.voltage_monitor.v
           th == args.firing_threshold
       IN  surface' = surface
              \o <<Draw("subplot", "voltage", 212, "", <<>>),
                   Draw("plot", "voltage", 0, "", v)>>
              \o (IF IsNone(th) THEN <<>>
                  ELSE <<Draw("plot", "voltage", 0, "r--", <<Val(th), Val(th)>>)>>)
              \o <<Draw("ylim", "voltage", 0, "", voltage_ylim(v, th)),
                   Draw("xlabel", "voltage", 0, "", <<>>),
                   Draw("ylabel", "voltage", 0, "", <<>>),
                   Draw("grid", "voltage", 0, "", <<>>)>>
    /\ pc' = "finish"
    /\ UNCHANGED <<fn, args, err, loc>>

\* Lines 72-78: legend, title and the optional blocking plt.show().
VCFinish ==
    /\ fn = "plot_voltage_and_current_traces" /\ pc = "finish"
    /\ surface' = surface
          \o (IF IsNone(args.firing_threshold) THEN <<>>
              ELSE <<Draw("legend", "voltage", 0, "", <<>>)>>)
          \o (IF IsNone(args.title) THEN <<>>
              ELSE <<Draw("suptitle", "figure", 0, "", <<>>)>>)
          \o (IF args.do_show_plot THEN <<Draw("show", "figure", 0, "", <<>>)>>
              ELSE <<>>)
    /\ loc' = [loc EXCEPT !.shown = args.do_show_plot]
    /\ pc' = "done"
    /\ UNCHANGED <<fn, args, err>>

NextVC ==
    \/ VCValidate
    \/ VCCurrent
    \/ VCVoltage
    \/ VCFinish

-----------------------------------------------------------------------------
(* plot_ISI_distribution (lines 234-254).                                   *)

\* The differences of consecutive spike times of one spike train.
isi_of(train) == [i \in 1..(Len(train) - 1) |-> train[i + 1] - train[i]]

\* The coefficient of variation std / mean of a sample, kept as the fraction
\* <<numerator, denominator>> of its square, (n * sum x^2 - (sum x)^2) / (sum x)^2;
\* <<0, 0>> (not a number) for the empty sample.
coefficient_of_variation(xs) ==
    LET n  == Len(xs)
        s1 == Sum(xs)
        s2 == Sum([i \in 1..n |-> xs[i] * xs[i]])
    IN  <<n * s2 - s1 * s1, s1 * s1>>

\* spike_tools.get_spike_train_stats: all inter-spike intervals of the
\* monitor, and CV, their coefficient of variation.
get_spike_train_stats(spike_monitor) ==
    LET all_ISI == Flatten([k \in 1..Len(spike_monitor.trains) |->
                               isi_of(spike_monitor.trains[k])])
    IN  [all_ISI |-> all_ISI, CV |-> coefficient_of_variation(all_ISI)]

\* Lines 247-250: the intervals that are displayed.
filtered_isi(all_ISI, hist_max_ISI) ==
    SelectSeq(all_ISI, LAMBDA x : x <= hist_max_ISI)

\* Mutant of title_CV: the CV of the displayed intervals only.
title_CV_of_displayed(stats, isi_ms) == coefficient_of_variation(isi_ms)

\* Line 253: the CV shown in the title.
title_CV(stats, isi_ms) == stats.CV

\* Spike monitors: the spike times (ms) of each neuron.
ISIMonitors ==
    {<<<<0, 1, 3, 6, 156>>>>,
     <<<<0, 10>>, <<5, 8, 108>>>>,
     <<<<0, 100, 200>>, <<>>, <<7>>>>,
     <<<<2, 4, 104, 254>>, <<0, 3>>>>,
     <<<<5>>>>}

ISIArgs ==
    {[spike_monitor |-> [kind |-> "SpikeMonitor", trains |-> tr],
      hist_nr_bins |-> b,
      hist_max_ISI |-> c] :
        tr \in ISIMonitors,
        b \in {DefaultBins, 10},
        c \in {2, 3, 99, DefaultMaxISI, 150}}

InitISI ==
    /\ fn = "plot_ISI_distribution"
    /\ args \in ISIArgs
    /\ pc = "stats"
    /\ err = "none"
    /\ loc = [stats |-> None, isi_ms |-> None]
    /\ surface = <<>>

\* Lines 245-246.
ISIStats ==
    /\ fn = "plot_ISI_distribution" /\ pc = "stats"
    /\ loc' = [loc EXCEPT !.stats = Some(get_spike_train_stats(args.spike_monitor))]
    /\ pc' = "filter"
    /\ UNCHANGED <<fn, args, err, surface>>

\* Lines 247-250.
ISIFilter ==
    /\ fn = "plot_ISI_distribution" /\ pc = "filter"
    /\ loc' = [loc EXCEPT
                  !.isi_ms = Some(filtered_isi(Val(loc.stats).all_ISI, args.hist_max_ISI))]
    /\ pc' = "plot"
    /\ UNCHANGED <<fn, args, err, surface>>

\* Lines 251-254.
ISIPlot ==
    /\ fn = "plot_ISI_distribution" /\ pc = "plot"
    /\ surface' = surface
          \o <<Draw("figure", "figure", 0, "", <<>>),
               Draw("hist", "isi", args.hist_nr_bins, "", Val(loc.isi_ms)),
               Draw("title", "isi", 0, "", title_CV(Val(loc.stats), Val(loc.isi_ms))),
               Draw("xlabel", "isi", 0, "", <<>>)>>
    /\ pc' = "done"
    /\ UNCHANGED <<fn, args, err, loc>>

NextISI ==
    \/ ISIStats
    \/ ISIFilter
    \/ ISIPlot

-----------------------------------------------------------------------------
(* The library: one call of one of the three functions.                     *)

Init == InitVC \/ InitNet \/ InitISI

Next == NextVC \/ NextNet \/ NextISI

Spec == Init /\ [][Next]_vars

\* Large networks: selections around the limit of MaxSpikeTrains entries.
InitLarge ==
    /\ fn = "plot_network_activity"
    /\ args \in NetArgs((MaxSpikeTrains - 1)..(MaxSpikeTrains + 1), {0, DefaultHighlighted})
    /\ pc = "validate"
    /\ err = "none"
    /\ loc = NetLocals(args)
    /\ surface = <<>>

SpecLarge == InitLarge /\ [][NextNet]_vars

-----------------------------------------------------------------------------
(* Vocabulary of the properties.                                            *)

IsNet == fn = "plot_network_activity"

IsVC == fn = "plot_voltage_and_current_traces"

IsISI == fn = "plot_ISI_distribution"

\* The calls made so far on one panel with one operation, in call order.
Draws(op, panel) == SelectSeq(surface, LAMBDA d : d.op = op /\ d.panel = panel)

\* The selection has been made: the call is past lines 107-126.
Selected == IsNet /\ pc \notin {"validate", "select"} /\ err # "AssertionError"

\* The window has been derived: the call is past lines 107-136.
Windowed == Selected /\ pc # "window"

\* The highlighting of lines 216-221 has completed.
Highlighted == IsNet /\ pc \in {"voltage", "return", "done"}

\* The raster's scatter calls that come after its set_ylim: the highlights.
HighlightScatters ==
    LET after == {i \in 1..Len(surface) :
                    \E j \in 1..(i - 1) : surface[j].op = "set_ylim"}
    IN  SelectSeq([i \in 1..Len(surface) |->
                      IF i \in after THEN surface[i] ELSE Draw("", "", 0, "", <<>>)],
                  LAMBDA d : d.op = "scatter" /\ d.panel = "raster")

\* x holds exactly the entries t of the ascending sequence ts with lo <= t <= hi.
KeptExactly(x, ts, lo, hi) ==
    /\ Range(x) = {t \in Range(ts) : lo <= t /\ t <= hi}
    /\ \A i \in 1..(Len(x) - 1) : x[i] < x[i + 1]

\* Number of occurrences of v in the sequence s.
Count(s, v) == Cardinality({i \in 1..Len(s) : s[i] = v})

Min2(a, b) == IF a <= b THEN a ELSE b

-----------------------------------------------------------------------------
(* C1.  plot_network_activity: whenever a call fails, no rendering step has *)
(* been performed before the error (failures are all-or-nothing), whatever  *)
(* the cause, an invalid index in spike_train_idx_list included.            *)
C1_FailureRendersNothing ==
    (IsNet /\ pc = "error") => surface = <<>>

(* C2.  plot_network_activity: an empty neuron selection never raises, for  *)
(* every N_highlighted_spiketrains: the call renders empty panels and       *)
(* returns.                                                                 *)
C2_EmptySelectionNeverRaises ==
    (Selected /\ loc.spike_train_idx_list = <<>>) => pc # "error"

(* C3.  plot_voltage_and_current_traces: with a firing threshold given, the *)
(* voltage y-range that is set contains the threshold, wherever it lies;    *)
(* above the recorded maximum the range is [min_v - m, threshold + m] with  *)
(* m = 0.05 * (threshold - min_v).                                          *)
C3_VoltageRangeCoversThreshold ==
    (IsVC /\ ~IsNone(args.firing_threshold)) =>
        \A i \in 1..Len(Draws("ylim", "voltage")) :
            LET lim   == Draws("ylim", "voltage")[i].x
                th    == Val(args.firing_threshold)
                min_v == min(args.voltage_monitor.v)
                max_v == max(args.voltage_monitor.v)
            IN  /\ lim[1] <= Scale * th
                /\ Scale * th <= lim[2]
                /\ th > max_v =>
                      lim = <<Scale * min_v - (th - min_v), Scale * th + (th - min_v)>>

(* C4.  plot_network_activity with a voltage monitor: if                    *)
(* N_highlighted_spiketrains is 0 every trace the monitor recorded is       *)
(* plotted; otherwise exactly the traces of the neurons at the highlighted  *)
(* rows, in order, the first in the distinguishing colour; also when an     *)
(* explicit spike_train_idx_list differs from the monitor's record.         *)
C4_VoltageTraces ==
    (IsNet /\ pc = "done" /\ ~IsNone(args.voltage_monitor)) =>
        LET traces == Draws("plot", "voltage")
            sel    == loc.spike_train_idx_list
            hl     == loc.highlighted_neurons_i
        IN  IF args.N_highlighted_spiketrains = 0
            THEN {traces[i].y : i \in 1..Len(traces)}
                    = Range(Val(args.voltage_monitor).record)
            ELSE /\ Len(traces) = Len(hl)
                 /\ \A i \in 1..Len(hl) :
                       /\ traces[i].y = sel[hl[i] + 1]
                       /\ (traces[i].c = "r") <=> (i = 1)

C6_HighlightedRows ==
    Highlighted =>
        LET N == args.N_highlighted_spiketrains
            R == Len(loc.spike_train_idx_list)
            hl == loc.highlighted_neurons_i
        IN  IF N >= 1
            THEN /\ hl = [k \in 1..N |-> (R * k) \div (N + 1)]
                 /\ Len(HighlightScatters) = N
                 /\ \A k \in 1..N :
                       /\ HighlightScatters[k].y = (R * k) \div (N + 1)
                       /\ (HighlightScatters[k].c = "r") <=> (k = 1)
            ELSE hl = <<>> /\ HighlightScatters = <<>>
                 /\ Draws("axhline", "raster") = <<>>

C8_ISIDisplay ==
    (IsISI /\ pc = "done") =>
        LET all_ISI == get_spike_train_stats(args.spike_monitor).all_ISI
            hist    == Draws("hist", "isi")
            title   == Draws("title", "isi")
        IN  /\ Len(hist) = 1 /\ Len(title) = 1
            /\ \A v \in Range(all_ISI) \cup Range(hist[1].x) :
                  Count(hist[1].x, v)
                     = IF v <= args.hist_max_ISI THEN Count(all_ISI, v) ELSE 0
            /\ title[1].x = coefficient_of_variation(all_ISI)
            /\ (all_ISI = <<1, 2, 3, 150>> /\ args.hist_max_ISI = 100)
                  => (hist[1].x = <<1, 2, 3>> /\ title[1].x = <<65720, 24336>>)

C8_Witness ==
    /\ IsISI /\ pc = "done"
    /\ Val(loc.stats).all_ISI = <<1, 2, 3, 150>>
    /\ args.hist_max_ISI = 100
    /\ Draws("hist", "isi")[1].x = <<1, 2, 3>>
    /\ Draws("title", "isi")[1].x = <<65720, 24336>>

(* C9.  plot_voltage_and_current_traces: the current is sampled at the      *)
(* voltage trace's time points and, with d = max - min of the samples, the  *)
(* current y-range is [min - 1.05 d, max + 1.05 d] if d > 0 and is not set  *)
(* at all if d = 0, so no inverted bounds ever reach the plotting surface.  *)
C9_CurrentRange ==
    (IsVC /\ pc \in {"voltage", "finish", "done"}) =>
        LET t  == args.voltage_monitor.t
            cv == args.current.values
            c  == [i \in 1..Len(t) |-> cv[Min2(t[i] \div args.current.dt + 1, Len(cv))]]
            hi == CHOOSE x \in Range(c) : \A y \in Range(c) : y <= x
            lo == CHOOSE x \in Range(c) : \A y \in Range(c) : x <= y
            d  == hi - lo
            lims == Draws("ylim", "current")
        IN  /\ Draws("plot", "current")[1].x = c
            /\ d > 0 => /\ Len(lims) = 1
                        /\ lims[1].x = <<Scale * lo - 21 * d, Scale * hi + 21 * d>>
            /\ d = 0 => lims = <<>>
            /\ \A i \in 1..Len(lims) : lims[i].x[1] < lims[i].x[2]

C9_Witness ==
    /\ IsVC /\ pc = "done"
    /\ args.current.values = <<4>>
    /\ Draws("ylim", "current") = <<>>
    /\ Draws("plot", "current")[1].x = <<4, 4, 4>>

(* C10.  A record argument of the wrong kind makes the call fail before any *)
(* rendering or selection step: plot_voltage_and_current_traces before its  *)
(* first plotting call, plot_network_activity before selection, window      *)
(* derivation and panel creation (a non-list spike_train_idx_list           *)
(* included).                                                               *)
C10_WrongKindFailsFirst ==
    /\ (/\ IsVC /\ pc # "validate"
        /\ \/ args.voltage_monitor.kind # "StateMonitor"
           \/ args.current.kind # "TimedArray")
          => (pc = "error" /\ err = "AssertionError" /\ surface = <<>>)
    /\ (/\ IsNet /\ pc # "validate"
        /\ \/ args.rate_monitor.kind # "PopulationRateMonitor"
           \/ args.spike_monitor.kind # "SpikeMonitor"
           \/ (~IsNone(args.voltage_monitor)
                  /\ Val(args.voltage_monitor).kind # "StateMonitor")
           \/ (~IsNone(args.spike_train_idx_list)
                  /\ Val(args.spike_train_idx_list).kind # "list"))
          => (/\ pc = "error" /\ err = "AssertionError" /\ surface = <<>>
              /\ loc = NetLocals(args))

C10_Witness ==
    /\ IsNet /\ pc = "error" /\ err = "AssertionError"
    /\ args.rate_monitor.kind = "PopulationRateMonitor"
    /\ args.spike_monitor.kind = "SpikeMonitor"
    /\ IsNone(args.voltage_monitor)
    /\ ~IsNone(args.spike_train_idx_list)
    /\ Val(args.spike_train_idx_list).kind # "list"

====
